---------------------------- MODULE Spec2Model ----------------------------
(***************************************************************************)
(* State-machine model of the analysis orchestrator of the engine          *)
(* (apps/engine/analyze.py) together with the collaborators it calls:      *)
(* memory/store.py (context retrieval), memory/embeddings.py (embedding    *)
(* request) and core/llm.py (one analysis task per backend).               *)
(*                                                                         *)
(* One behaviour is one invocation of analyze_chunks(chunks).  Python      *)
(* strings that the code only tests and passes on (source ids, chunk       *)
(* contents, provider names) are TLA+ strings; strings the code builds     *)
(* (context snippets, the aggregated context) are sequences of tokens, so  *)
(* that "\n".join and f"- {content}" are computed rather than assumed.     *)
(* DecisionObject instances are mutable Python objects: they live in       *)
(* `heap` and lists hold references (object ids) to them.                  *)
(***************************************************************************)
EXTENDS Integers, Sequences, FiniteSets, TLC

(***************************************************************************)
(* Bounds of the model (not program constants).                            *)
(***************************************************************************)
\* longest input batch
MaxChunks == 2
\* total number of items all backends together may return in one run
MaxItems == 3
\* number of distinct DecisionObject instances the backends may hand back
MaxObjs == 2
\* number of rows one similarity query may return
MaxMem == 1
\* total number of returned items in the runs that vary the environment
MaxConfigItems == 1
\* number of model-selection variables the environment may set
MaxSetVars == 1
\* number of add_memory calls in a row
MaxAdds == 2
\* number of queries of one retrieve_context_batch call
MaxQueries == 2

VARIABLES
    MODELS,              \* analyze.py:23 backend registry
    chunks,              \* argument of analyze_chunks
    pc,                  \* position of analyze_chunks
    valid_chunks,        \* analyze.py:47
    context_results,     \* analyze.py:62
    aggregated_context,  \* analyze.py:63
    tasks,               \* analyze.py:67 coroutines handed to gather
    outcomes,            \* what each task came to (Pending while it runs)
    settled,             \* the result slots of gather, by position
    results,             \* analyze.py:87
    valid_decisions,     \* analyze.py:89
    heap,                \* the DecisionObject instances, by object id
    ret,                 \* how the call ended and what it returned
    log,                 \* diagnostics emitted through logger
    retrieve_calls,      \* argument of every retrieve_context_batch call
    embed_calls,         \* argument of every embed_content request
    running,             \* indices of the tasks gather still waits for
    first_settled,       \* index of the task that settled first (0: none yet)
    env,                 \* what the collaborators may still produce
    requests,            \* llm.py:97-148 what each task sent to its backend
    kwargs,              \* models.py:12 keyword arguments of DecisionObject(...)
    constructed,         \* models.py:12 what that construction came to
    main_pc,             \* position of main
    data,                \* main.py:30
    sb_client,           \* main.py:42
    snapshot_calls,      \* main.py:47 every upsert attempted and how it ended
    saved_count,         \* main.py:44
    analyze_calls,       \* main.py:61 argument of every analyze_chunks call
    decisions,           \* main.py:61
    save_calls,          \* main.py:67 every save attempted and how it ended
    saved_decisions,     \* main.py:64
    batch_call,          \* store.py:16 queries of a retrieve_context_batch
                         \* call and what its collaborators answer
    batch_results,       \* store.py:16 what that call returned
    memories,            \* contents of the rows of table "memories"
    add_calls            \* store.py:68 every add_memory call and its result

vars == <<MODELS, chunks, pc, valid_chunks, context_results,
          aggregated_context, tasks, outcomes, settled, results, valid_decisions,
          heap, ret, log, retrieve_calls, embed_calls, running,
          first_settled, env, requests, kwargs, constructed,
          main_pc, data, sb_client, snapshot_calls, saved_count, analyze_calls,
          decisions, save_calls, saved_decisions,
          batch_call, batch_results, memories, add_calls>>

\* the state of main, of the memory store, and of one analyze_chunks call
mainVars == <<main_pc, data, sb_client, snapshot_calls, saved_count,
              analyze_calls, decisions, save_calls, saved_decisions>>
storeVars == <<batch_call, batch_results, memories, add_calls>>
analysisVars == <<MODELS, chunks, pc, valid_chunks, context_results,
                  aggregated_context, tasks, outcomes, settled, results,
                  valid_decisions, heap, ret, log, retrieve_calls, embed_calls,
                  running, first_settled, env, requests>>

(***************************************************************************)
(* Python values                                                           *)
(***************************************************************************)
\* dict.get(key) of an absent key, and the default of an unset field
None == "<None>"

\* truth value of an optional Python string
Truthy(v) == v # None /\ v # ""

\* a built string is a sequence of tokens; "" is the empty sequence
EmptyStr == <<>>

RECURSIVE JoinStr(_, _)
\* sep.join(parts) for a list of built strings
JoinStr(sep, parts) ==
    IF parts = <<>> THEN EmptyStr
    ELSE IF Len(parts) = 1 THEN parts[1]
    ELSE parts[1] \o <<sep>> \o JoinStr(sep, Tail(parts))

\* all sequences over S of length at most n
BoundedSeq(S, n) == UNION {[1..k -> S] : k \in 0..n}

(***************************************************************************)
(* core/config.py and the registry of analyze.py                           *)
(***************************************************************************)
OPENAI_MODEL == "gpt-4-turbo-preview"
ANTHROPIC_MODEL == "claude-3-5-sonnet-20240620"
GEMINI_MODEL == "gemini-1.5-pro"
DEEPSEEK_MODEL == "deepseek-chat"

\* config.py:36-39  os.getenv(key, default) under the process environment
\* `environ`: the default only where the variable is not set at all
Getenv(environ, key, default) ==
    IF key \in DOMAIN environ THEN environ[key] ELSE default

\* the model-selection variables and the environments the model imports
\* config.py under: at most MaxSetVars of the variables are set, each to
\* the empty string or to the id of some model
ModelKeys == {"OPENAI_MODEL", "ANTHROPIC_MODEL", "GEMINI_MODEL", "DEEPSEEK_MODEL"}
Environs ==
    UNION {[K -> {"", "custom-model"}] :
              K \in {J \in SUBSET ModelKeys : Cardinality(J) <= MaxSetVars}}

\* the value MODELS is given when analyze.py is imported under `environ`
ModelsImportedUnder(environ) ==
    << [provider |-> "openai",
        model |-> Getenv(environ, "OPENAI_MODEL", OPENAI_MODEL)],
       [provider |-> "anthropic",
        model |-> Getenv(environ, "ANTHROPIC_MODEL", ANTHROPIC_MODEL)],
       [provider |-> "gemini",
        model |-> Getenv(environ, "GEMINI_MODEL", GEMINI_MODEL)],
       [provider |-> "deepseek",
        model |-> Getenv(environ, "DEEPSEEK_MODEL", DEEPSEEK_MODEL)] >>

\* the value MODELS is given when analyze.py is imported with none of the
\* model-selection variables set
ModelsAtImport ==
    << [provider |-> "openai",    model |-> OPENAI_MODEL],
       [provider |-> "anthropic", model |-> ANTHROPIC_MODEL],
       [provider |-> "gemini",    model |-> GEMINI_MODEL],
       [provider |-> "deepseek",  model |-> DEEPSEEK_MODEL] >>

(***************************************************************************)
(* Input chunks                                                            *)
(***************************************************************************)
\* what c.get("source_id") may give: absent, empty, or an identifier
SourceIds == {None, "", "c1", "c2"}
\* what c.get("content") may give: absent, empty, or a text
Contents == {None, "", "t1", "t2"}

\* chunk dictionaries of the input: the two well-formed chunks c1/t1 and
\* c2/t2 and every way of missing or emptying one of the two keys
ChunkPool ==
    { c \in [source_id : SourceIds, content : Contents] :
        \/ c.source_id = "c1" /\ c.content = "t1"
        \/ c.source_id = "c2" /\ c.content = "t2"
        \/ c.source_id \in {None, ""} /\ c.content = "t1"
        \/ c.source_id = "c1" /\ c.content \in {None, ""} }

\* analyze.py:49  the test a chunk must pass
IsValidChunk(c) == Truthy(c.source_id) /\ Truthy(c.content)

\* analyze.py:47-50  valid_chunks = [c for c in chunks if ...]
FilterChunks(cs) == SelectSeq(cs, IsValidChunk)

\* analyze.py:59  queries = [chunk["content"] for chunk in valid_chunks]
Queries(vs) == [i \in 1..Len(vs) |-> vs[i].content]

(***************************************************************************)
(* Diagnostics: one record per logger call.  `n` is the number the         *)
(* message carries and `who` the provider it names (None / 0 when the      *)
(* message carries none).                                                  *)
(***************************************************************************)
LogRec(level, event, n, who) ==
    [level |-> level, event |-> event, n |-> n, who |-> who]

(***************************************************************************)
(* memory/embeddings.py and memory/store.py                                *)
(***************************************************************************)
Raise == [kind |-> "raise"]

\* what the embedding service may answer to a request for n texts: an error,
\* or any number of embeddings from none to one more than asked for
EmbedResponses(n) == {Raise} \cup {[kind |-> "ok", n |-> k] : k \in 0..(n + 1)}

\* embeddings.py:27-55  get_embeddings_batch(texts), given the service's
\* answer; an embedding is named by its position in the response
get_embeddings_batch(texts, response) ==
    IF texts = <<>> THEN [kind |-> "ok", embeddings |-> <<>>]
    ELSE IF response.kind = "raise" THEN Raise
    ELSE IF response.n = 0 THEN [kind |-> "ok", embeddings |-> <<>>]
    ELSE [kind |-> "ok", embeddings |-> [i \in 1..response.n |-> i]]

\* the "content" of a row of match_memories: empty, or a remembered text
RowContents == {"", "m1"}

\* what one match_memories call may answer when at most m rows come back
RpcResponses(m) ==
    {Raise} \cup {[kind |-> "ok", data |-> d] : d \in BoundedSeq(RowContents, m)}

\* store.py:55-61  the formatted context of one non-empty response
FormatRows(rows) ==
    LET kept  == SelectSeq(rows, Truthy)
        parts == [i \in 1..Len(kept) |-> <<"- ", kept[i]>>]
    IN  JoinStr("\n", parts)

\* store.py:66 and 33  ["" for _ in queries]
EmptyContexts(queries) == [i \in 1..Len(queries) |-> EmptyStr]

\* (variant: a failed similarity query costs only its own context)
retrieve_context_batch_per_query(queries, response, client_ok, rpc) ==
    IF queries = <<>> THEN <<>>
    ELSE
      LET got == get_embeddings_batch(queries, response) IN
      IF got.kind = "raise" THEN EmptyContexts(queries)
      ELSE IF got.embeddings = <<>> THEN EmptyContexts(queries)
      ELSE IF ~client_ok THEN EmptyContexts(queries)
      ELSE [i \in 1..Len(got.embeddings) |->
              IF rpc[i].kind = "raise" THEN EmptyStr
              ELSE IF rpc[i].data = <<>> THEN EmptyStr
              ELSE FormatRows(rpc[i].data)]

\* store.py:16-66  retrieve_context_batch(queries), given the embedding
\* service's answer, whether the database client can be created, and the
\* answer of the similarity query of each embedding
retrieve_context_batch(queries, response, client_ok, rpc) ==
    IF queries = <<>> THEN <<>>
    ELSE
      LET got == get_embeddings_batch(queries, response) IN
      IF got.kind = "raise" THEN EmptyContexts(queries)
      ELSE IF got.embeddings = <<>> THEN EmptyContexts(queries)
      ELSE IF ~client_ok THEN EmptyContexts(queries)
      ELSE IF \E i \in 1..Len(got.embeddings) : rpc[i].kind = "raise"
           THEN EmptyContexts(queries)
      ELSE [i \in 1..Len(got.embeddings) |->
              IF rpc[i].data = <<>> THEN EmptyStr ELSE FormatRows(rpc[i].data)]

\* (variant: every returned string is joined, the empty ones too)
AggregateContextKeepEmpty(cr) == JoinStr("\n", cr)

\* no retrieve_context_batch call of its own is being examined
NoBatchCall == [queries |-> <<>>]

\* analyze.py:63  "\n".join([c for c in context_results if c])
AggregateContext(cr) == JoinStr("\n", SelectSeq(cr, LAMBDA c : c # EmptyStr))

(***************************************************************************)
(* core/llm.py: one analysis task                                          *)
(***************************************************************************)
\* llm.py:60-65  the providers that have a client factory
ClientFactories == {"openai", "anthropic", "deepseek", "gemini"}

\* object ids of the DecisionObject instances backends may hand back
ObjIds == 1..MaxObjs
\* an item of a returned list that is not a DecisionObject instance
NotADecision == 0
ItemPool == ObjIds \cup {NotADecision}

\* results of a settled task as gather(return_exceptions=True) reports them
Failed == [kind |-> "exception", items |-> <<>>]
NonList == [kind |-> "other", items |-> <<>>]
Returned(items) == [kind |-> "list", items |-> items]
Pending == [kind |-> "pending", items |-> <<>>]

\* what a backend call may come to when at most n more items may be returned
CallOutcomes(n) ==
    {Failed, NonList} \cup {Returned(items) : items \in BoundedSeq(ItemPool, n)}

\* llm.py:117  the text the prompt carries when there is no context
NoContextPlaceholder == <<"No relevant historical context found.">>

\* llm.py:116-117  the historical-context section of the prompt
PromptContext(context) ==
    IF context # EmptyStr THEN context ELSE NoContextPlaceholder

\* a task that has sent nothing to its backend
NoRequest ==
    [client |-> FALSE, sent |-> FALSE, model |-> None, context |-> EmptyStr]

\* llm.py:91-148  the request of one task: no client and no request when the
\* provider has no client factory, else the client is created and the
\* request carries the model and the prompt's context section
BuildRequest(task) ==
    IF task.provider \notin ClientFactories THEN NoRequest
    ELSE [client |-> TRUE, sent |-> TRUE, model |-> task.model_name,
          context |-> PromptContext(task.context)]

\* (variant: the provider is not looked up, the call is made in any case)
analyze_with_provider_unchecked(provider, call) == call

\* llm.py:70-157  analyze_with_provider, given what the backend call comes to:
\* ValueError for a provider without a client factory (91-93)
analyze_with_provider(provider, call) ==
    IF provider \notin ClientFactories THEN Failed ELSE call

(***************************************************************************)
(* core/models.py: DecisionObject                                          *)
(***************************************************************************)
\* the attribution fields of a DecisionObject and their value in an instance
\* the reducer has not stamped yet
\* (core/models.py as given declares neither field; analyze.py:102-103,
\* main.py:71 and tests/test_attribution.py:34-35 use both, so they are
\* modelled as declared, optional and unset by default)
Unattributed == [model_provider |-> None, model_name |-> None]

\* models.py:27  Literal["BUY", "SELL", "HOLD"]
Signals == {"BUY", "SELL", "HOLD"}

\* models.py:30-31  ge=0, le=100
MinConfidence == 0
MaxConfidence == 100

\* (variant: only the upper limit of confidence is enforced)
ConfidenceAllowedNoFloor(c) == c <= MaxConfidence

\* models.py:28-33  the constraint on confidence
ConfidenceAllowed(c) == c >= MinConfidence /\ c <= MaxConfidence

\* str.upper() on the letters ticker symbols of the model are written with; a
\* ticker is the sequence of its characters
UpperOf == ("a" :> "A") @@ ("l" :> "L") @@ ("p" :> "P")
UpperChar(c) == IF c \in DOMAIN UpperOf THEN UpperOf[c] ELSE c

\* (variant: the ticker is kept as given)
upper_case_ticker_kept(v) == v

\* models.py:44-48  the field validator of ticker
upper_case_ticker(v) == [i \in 1..Len(v) |-> UpperChar(v[i])]

\* what DecisionObject(**kwargs) comes to
ValidationError == [status |-> "ValidationError"]
Constructed(object) == [status |-> "ok", object |-> object]

\* models.py:12-48  DecisionObject(**kw): every required field must be given
\* (None: the key is absent), signal and confidence must be allowed, and the
\* ticker is stored upper-cased
DecisionObject(kw) ==
    IF \/ None \in {kw.signal, kw.reasoning, kw.source_id}
       \/ kw.signal \notin Signals
       \/ ~ConfidenceAllowed(kw.confidence)
    THEN ValidationError
    ELSE Constructed(
           [signal |-> kw.signal, confidence |-> kw.confidence,
            ticker |-> upper_case_ticker(kw.ticker), source_id |-> kw.source_id,
            model_provider |-> kw.model_provider, model_name |-> kw.model_name])

\* the keyword arguments the instance with object id `id` is built from by a
\* backend response: ids differ in signal, confidence and the case of the
\* ticker, and the instances of even id arrive with attribution fields the
\* response filled in (naming the first backend and a model no backend is
\* configured with)
ResponseKwargs(id) ==
    LET attr == IF id % 2 = 0
                THEN [model_provider |-> "openai", model_name |-> "spoofed-model"]
                ELSE Unattributed
        core == IF id % 3 = 1
                THEN [signal |-> "BUY", confidence |-> 90,
                      ticker |-> <<"a", "a", "p", "l">>]
                ELSE IF id % 3 = 2
                THEN [signal |-> "SELL", confidence |-> MaxConfidence,
                      ticker |-> <<"A", "A", "P", "L">>]
                ELSE [signal |-> "HOLD", confidence |-> MinConfidence,
                      ticker |-> <<"A", "a", "p", "l">>]
    IN  [signal |-> core.signal, confidence |-> core.confidence,
         reasoning |-> "r", ticker |-> core.ticker, source_id |-> "c1",
         model_provider |-> attr.model_provider, model_name |-> attr.model_name]

\* the instance with object id `id`: backends hand back instances that went
\* through the constructor
ResponseObject(id) == DecisionObject(ResponseKwargs(id)).object

\* no construction asked for / made (the orchestrator constructs none itself)
NoKwargs == [given |-> FALSE]
NotConstructed == [status |-> "none"]

\* analyze.py:100  isinstance(decision, DecisionObject)
IsDecisionObject(d) == d \in ObjIds

(***************************************************************************)
(* analyze.py: the steps of analyze_chunks                                 *)
(***************************************************************************)
\* analyze.py:42  `if not chunks`
NoChunks(cs) == cs = <<>>

\* (variant: the second early return is missing)
NoValidChunksUnchecked(vs) == FALSE

\* analyze.py:55  `if not valid_chunks`
NoValidChunks(vs) == vs = <<>>

\* (variant: one warning per rejected chunk)
SkipDiagnosticsPerChunk(cs, vs) ==
    [k \in 1..(Len(cs) - Len(vs)) |-> LogRec("warning", "skipped", 1, None)]

\* analyze.py:52-53  the warning about skipped chunks
SkipDiagnostics(cs, vs) ==
    IF Len(vs) < Len(cs)
    THEN <<LogRec("warning", "skipped", Len(cs) - Len(vs), None)>>
    ELSE <<>>

\* (variant: one retrieval call per chunk)
ContextCallsPerQuery(queries) == [i \in 1..Len(queries) |-> <<queries[i]>>]

\* analyze.py:61-62  the calls made to retrieve_context_batch, by argument
ContextCalls(queries) == IF queries # <<>> THEN <<queries>> ELSE <<>>

\* embeddings.py:36-46  the embed_content requests of one
\* get_embeddings_batch(texts) call, by argument
\* (creating the genai client, embeddings.py:40, is taken to succeed; the
\* request itself may fail, see EmbedResponses)
EmbedRequests(texts) == IF texts = <<>> THEN <<>> ELSE <<texts>>

\* (variant: one coroutine per registry entry and chunk)
BuildTasksPerChunk(models, vs, context) ==
    [k \in 1..(Len(models) * Len(vs)) |->
        LET i == ((k - 1) \div Len(vs)) + 1
            j == ((k - 1) % Len(vs)) + 1
        IN  [provider |-> models[i].provider, model_name |-> models[i].model,
             chunks |-> <<vs[j]>>, context |-> context]]

\* analyze.py:67-79  one coroutine per registry entry
BuildTasks(models, vs, context) ==
    [i \in 1..Len(models) |->
        [provider |-> models[i].provider, model_name |-> models[i].model,
         chunks |-> vs, context |-> context]]

\* (variant: gather with its default, return_exceptions=False)
ReturnExceptionsOff == FALSE

\* analyze.py:87  the return_exceptions argument of asyncio.gather
ReturnExceptions == TRUE

\* (variant: results collected in completion order, as with as_completed)
StoreOutcomeAsCompleted(slots, i, n_done, outcome) ==
    [slots EXCEPT ![n_done + 1] = outcome]

\* asyncio.gather stores the outcome of the i-th awaitable at position i
\* (n_done tasks had settled before it)
StoreOutcome(slots, i, n_done, outcome) == [slots EXCEPT ![i] = outcome]

\* (variant: the wait ends as soon as one task has raised)
GatherDoneFailFast(waiting, slots) ==
    waiting = {} \/ \E i \in 1..Len(slots) : slots[i].kind = "exception"

\* (variant: the wait is over only once every task has ended without raising)
GatherDoneOnSuccess(waiting, slots) ==
    waiting = {} /\ \A i \in 1..Len(slots) : slots[i].kind # "exception"

\* analyze.py:87  with return_exceptions=True the awaited gather is done when
\* no task is left running, whatever the tasks came to
GatherDone(waiting, slots) == waiting = {}

\* analyze.py:87  what `await asyncio.gather(...)` comes to once every task
\* has settled
GatherResult(slots, return_exceptions) ==
    IF ~return_exceptions /\ \E i \in 1..Len(slots) : slots[i].kind = "exception"
    THEN [kind |-> "raise", results |-> <<>>]
    ELSE [kind |-> "ok", results |-> slots]

\* (variant: attribution only filled in where the response left it unset)
KeepDecisionUnlessSet(acc, d, config) ==
    [acc EXCEPT !.heap[d].model_provider =
                    IF @ = None THEN config.provider ELSE @,
                !.heap[d].model_name =
                    IF @ = None THEN config.model ELSE @,
                !.decisions = Append(@, d)]

\* analyze.py:102-104  stamp the instance and append the reference
KeepDecision(acc, d, config) ==
    [acc EXCEPT !.heap[d].model_provider = config.provider,
                !.heap[d].model_name = config.model,
                !.decisions = Append(@, d)]

\* analyze.py:106  warn about an item that is not a DecisionObject
DropItem(acc, config) ==
    [acc EXCEPT !.log = Append(@, LogRec("warning", "unexpected_item", 0, config.provider))]

RECURSIVE ReduceItemsUntilInvalid(_, _, _)
\* (variant: the first unexpected item ends the loop over the list)
ReduceItemsUntilInvalid(items, config, acc) ==
    IF items = <<>> THEN acc
    ELSE IF Head(items) \in ObjIds
    THEN ReduceItemsUntilInvalid(Tail(items), config,
            [acc EXCEPT !.heap[Head(items)].model_provider = config.provider,
                        !.heap[Head(items)].model_name = config.model,
                        !.decisions = Append(@, Head(items))])
    ELSE [acc EXCEPT !.log =
             Append(@, LogRec("warning", "unexpected_item", 0, config.provider))]

RECURSIVE ReduceItems(_, _, _)
\* analyze.py:99-106  the loop over one backend's list
ReduceItems(items, config, acc) ==
    IF items = <<>> THEN acc
    ELSE ReduceItems(Tail(items), config,
                     IF IsDecisionObject(Head(items))
                     THEN KeepDecision(acc, Head(items), config)
                     ELSE DropItem(acc, config))

\* (variant: every result attributed to the first registry entry)
ConfigOfFirst(models, i) == models[1]

\* analyze.py:93  the registry entry of the i-th result
ConfigOf(models, i) == models[i]

RECURSIVE ReduceResults(_, _, _, _)
\* analyze.py:92-106  the loop over the results, from index i on
ReduceResults(res, models, i, acc) ==
    IF i > Len(res) THEN acc
    ELSE
      LET config == ConfigOf(models, i)
          next ==
            IF res[i].kind = "exception"
            THEN [acc EXCEPT !.log =
                     Append(@, LogRec("error", "task_failed", 0, config.provider))]
            ELSE IF res[i].kind = "list"
            THEN ReduceItems(res[i].items, config, acc)
            ELSE acc
      IN  ReduceResults(res, models, i + 1, next)

Running == [status |-> "running", value |-> <<>>]
Return(value) == [status |-> "returned", value |-> value]
Raised == [status |-> "raised", value |-> <<>>]

(***************************************************************************)
(* Initial states.  A run starts with a batch and with what the            *)
(* collaborators may produce during it: `items` returned items in total    *)
(* and `mem` rows per similarity query.  Every batch is explored with      *)
(* collaborators that return nothing; the similarity rows with the batches *)
(* of well-formed chunks; the backends' item lists with the one-chunk      *)
(* batch.                                                                  *)
(***************************************************************************)
OneChunk == <<[source_id |-> "c1", content |-> "t1"]>>
TwoChunks == OneChunk \o <<[source_id |-> "c2", content |-> "t2"]>>

\* main is not running
MainIdle ==
    /\ main_pc = "idle"
    /\ data = <<>>
    /\ sb_client = None
    /\ snapshot_calls = <<>>
    /\ saved_count = 0
    /\ analyze_calls = <<>>
    /\ decisions = <<>>
    /\ save_calls = <<>>
    /\ saved_decisions = 0

\* the memory store is not called
StoreIdle ==
    /\ batch_call = NoBatchCall
    /\ batch_results = <<>>
    /\ memories = <<>>
    /\ add_calls = <<>>

InitRun(registries, batches, budget) ==
    /\ MainIdle
    /\ StoreIdle
    /\ MODELS \in registries
    /\ chunks \in batches
    /\ env = budget
    /\ pc = "start"
    /\ valid_chunks = <<>>
    /\ context_results = <<>>
    /\ aggregated_context = EmptyStr
    /\ tasks = <<>>
    /\ outcomes = <<>>
    /\ settled = <<>>
    /\ results = <<>>
    /\ valid_decisions = <<>>
    /\ heap = [id \in ObjIds |-> ResponseObject(id)]
    /\ ret = Running
    /\ log = <<>>
    /\ retrieve_calls = <<>>
    /\ embed_calls = <<>>
    /\ running = {}
    /\ first_settled = 0
    /\ requests = <<>>
    /\ kwargs = NoKwargs
    /\ constructed = NotConstructed

InitWith(batches, budget) == InitRun({ModelsAtImport}, batches, budget)

Init ==
    \/ InitWith(BoundedSeq(ChunkPool, MaxChunks), [items |-> 0, mem |-> 0])
    \/ InitWith({OneChunk, TwoChunks}, [items |-> 0, mem |-> MaxMem])
    \/ InitWith({OneChunk}, [items |-> MaxItems, mem |-> 0])

(***************************************************************************)
(* Actions                                                                 *)
(***************************************************************************)
\* (variant: neither early return is taken)
ValidateChunksNoReturn ==
    /\ pc = "start"
    /\ valid_chunks' = SelectSeq(chunks, LAMBDA c : Truthy(c.source_id) /\ Truthy(c.content))
    /\ log' = log
    /\ pc' = "retrieve"
    /\ UNCHANGED <<MODELS, chunks, context_results, aggregated_context, tasks,
                   outcomes, settled, results, valid_decisions, heap, ret,
                   retrieve_calls, embed_calls, running, first_settled, env>>
    /\ UNCHANGED <<requests, kwargs, constructed>>
    /\ UNCHANGED <<mainVars, storeVars>>

\* analyze.py:42-57  the empty check, the filter and its two early returns
ValidateChunks ==
    /\ pc = "start"
    /\ IF NoChunks(chunks)
       THEN /\ log' = Append(log, LogRec("warning", "no_chunks", 0, None))
            /\ ret' = Return(<<>>)
            /\ pc' = "done"
            /\ UNCHANGED valid_chunks
       ELSE LET vs == FilterChunks(chunks)
                log1 == log \o SkipDiagnostics(chunks, vs)
            IN  /\ valid_chunks' = vs
                /\ IF NoValidChunks(vs)
                   THEN /\ log' = Append(log1, LogRec("warning", "no_valid_chunks", 0, None))
                        /\ ret' = Return(<<>>)
                        /\ pc' = "done"
                   ELSE /\ log' = log1
                        /\ pc' = "retrieve"
                        /\ UNCHANGED ret
    /\ UNCHANGED <<MODELS, chunks, context_results, aggregated_context, tasks,
                   outcomes, settled, results, valid_decisions, heap,
                   retrieve_calls, embed_calls, running, first_settled, env>>
    /\ UNCHANGED <<requests, kwargs, constructed>>
    /\ UNCHANGED <<mainVars, storeVars>>

\* analyze.py:59-65  the one batched context retrieval and its aggregation
RetrieveContext ==
    /\ pc = "retrieve"
    /\ LET queries == Queries(valid_chunks)
           calls == ContextCalls(queries)
       IN  /\ retrieve_calls' = retrieve_calls \o calls
           /\ embed_calls' = embed_calls \o
                  (IF calls = <<>> THEN <<>> ELSE EmbedRequests(calls[1]))
           /\ \E response \in EmbedResponses(Len(queries)),
                 client_ok \in BOOLEAN,
                 rpc \in [1..(Len(queries) + 1) -> RpcResponses(env.mem)] :
                 /\ context_results' =
                        retrieve_context_batch(queries, response, client_ok, rpc)
                 /\ aggregated_context' = AggregateContext(context_results')
    /\ pc' = "dispatch"
    /\ UNCHANGED <<MODELS, chunks, valid_chunks, tasks, outcomes, settled,
                   results, valid_decisions, heap, ret, log, running,
                   first_settled, env>>
    /\ UNCHANGED <<requests, kwargs, constructed>>
    /\ UNCHANGED <<mainVars, storeVars>>

\* analyze.py:67-84  build the coroutines; gather starts them together
CreateTasks ==
    /\ pc = "dispatch"
    /\ tasks' = BuildTasks(MODELS, valid_chunks, aggregated_context)
    /\ outcomes' = [i \in 1..Len(tasks') |-> Pending]
    /\ settled' = [i \in 1..Len(tasks') |-> Pending]
    /\ running' = 1..Len(tasks')
    /\ requests' = [i \in 1..Len(tasks') |-> NoRequest]
    /\ log' = Append(log, LogRec("info", "starting", Len(tasks'), None))
    /\ pc' = "gather"
    /\ UNCHANGED <<MODELS, chunks, valid_chunks, context_results,
                   aggregated_context, results, valid_decisions, heap, ret,
                   retrieve_calls, embed_calls, first_settled, env>>
    /\ UNCHANGED <<kwargs, constructed>>
    /\ UNCHANGED <<mainVars, storeVars>>

\* (variant: every task retrieves the context itself once it runs)
TaskSettleRetrieving(i) ==
    /\ pc = "gather"
    /\ i \in running
    /\ \E call \in CallOutcomes(env.items) :
         LET outcome == IF tasks[i].provider \notin ClientFactories
                        THEN Failed ELSE call IN
         /\ outcomes' = [outcomes EXCEPT ![i] = outcome]
         /\ settled' = [settled EXCEPT ![i] = outcome]
         /\ env' = [env EXCEPT !.items = @ - Len(outcome.items)]
    /\ retrieve_calls' = Append(retrieve_calls, Queries(valid_chunks))
    /\ requests' = [requests EXCEPT ![i] = [client |-> TRUE, sent |-> TRUE,
                        model |-> tasks[i].model_name,
                        context |-> IF tasks[i].context # EmptyStr
                                    THEN tasks[i].context
                                    ELSE NoContextPlaceholder]]
    /\ running' = running \ {i}
    /\ first_settled' = (IF first_settled = 0 THEN i ELSE first_settled)
    /\ UNCHANGED <<MODELS, chunks, pc, valid_chunks, context_results,
                   aggregated_context, tasks, results, valid_decisions, heap,
                   ret, log, embed_calls, kwargs, constructed>>
    /\ UNCHANGED <<mainVars, storeVars>>

\* llm.py:70-157  task i completes or fails while gather waits
TaskSettle(i) ==
    /\ pc = "gather"
    /\ i \in running
    /\ \E call \in CallOutcomes(env.items) :
         LET outcome == analyze_with_provider(tasks[i].provider, call) IN
         /\ outcomes' = [outcomes EXCEPT ![i] = outcome]
         /\ settled' = StoreOutcome(settled, i,
                                    Len(tasks) - Cardinality(running), outcome)
         /\ env' = [env EXCEPT !.items = @ - Len(outcome.items)]
    /\ requests' = [requests EXCEPT ![i] = BuildRequest(tasks[i])]
    /\ running' = running \ {i}
    /\ first_settled' = (IF first_settled = 0 THEN i ELSE first_settled)
    /\ UNCHANGED <<MODELS, chunks, pc, valid_chunks, context_results,
                   aggregated_context, tasks, results, valid_decisions, heap,
                   ret, log, retrieve_calls, embed_calls>>
    /\ UNCHANGED <<kwargs, constructed>>
    /\ UNCHANGED <<mainVars, storeVars>>

\* analyze.py:87  every task has settled: gather hands over the results
Join ==
    /\ pc = "gather"
    /\ GatherDone(running, settled)
    /\ LET g == GatherResult(settled, ReturnExceptions) IN
       IF g.kind = "raise"
       THEN /\ ret' = Raised
            /\ pc' = "done"
            /\ UNCHANGED results
       ELSE /\ results' = g.results
            /\ pc' = "reduce"
            /\ UNCHANGED ret
    /\ UNCHANGED <<MODELS, chunks, valid_chunks, context_results,
                   aggregated_context, tasks, outcomes, settled,
                   valid_decisions, heap, log, retrieve_calls, embed_calls,
                   running, first_settled, env>>
    /\ UNCHANGED <<requests, kwargs, constructed>>
    /\ UNCHANGED <<mainVars, storeVars>>

\* (variant: the reducer takes each result's entry off the registry)
ReducePoppingRegistry ==
    /\ pc = "reduce"
    /\ LET acc == ReduceResults(results, MODELS, 1,
                     [decisions |-> <<>>, heap |-> heap, log |-> log])
       IN  /\ valid_decisions' = acc.decisions
           /\ heap' = acc.heap
           /\ log' = Append(acc.log,
                        LogRec("info", "completed", Len(acc.decisions), None))
           /\ ret' = Return(acc.decisions)
    /\ MODELS' = SubSeq(MODELS, Len(results) + 1, Len(MODELS))
    /\ pc' = "done"
    /\ UNCHANGED <<chunks, valid_chunks, context_results,
                   aggregated_context, tasks, outcomes, settled, results,
                   retrieve_calls, embed_calls, running, first_settled, env>>
    /\ UNCHANGED <<requests, kwargs, constructed>>
    /\ UNCHANGED <<mainVars, storeVars>>

\* analyze.py:89-109  the reducer pass and the return
Reduce ==
    /\ pc = "reduce"
    /\ LET acc == ReduceResults(results, MODELS, 1,
                     [decisions |-> <<>>, heap |-> heap, log |-> log])
       IN  /\ valid_decisions' = acc.decisions
           /\ heap' = acc.heap
           /\ log' = Append(acc.log,
                        LogRec("info", "completed", Len(acc.decisions), None))
           /\ ret' = Return(acc.decisions)
    /\ pc' = "done"
    /\ UNCHANGED <<MODELS, chunks, valid_chunks, context_results,
                   aggregated_context, tasks, outcomes, settled, results,
                   retrieve_calls, embed_calls, running, first_settled, env>>
    /\ UNCHANGED <<requests, kwargs, constructed>>
    /\ UNCHANGED <<mainVars, storeVars>>

Next ==
    \/ ValidateChunks
    \/ RetrieveContext
    \/ CreateTasks
    \/ \E i \in 1..Len(tasks) : TaskSettle(i)
    \/ Join
    \/ Reduce

Spec == Init /\ [][Next]_vars

(***************************************************************************)
(* Runs under fairness.  The steps of analyze_chunks are straight-line     *)
(* code of a coroutine the event loop keeps running, and a backend call    *)
(* that is in flight ends: its client has a timeout and max_retries is 2   *)
(* (llm.py:127-131), which is the premise that every backend call          *)
(* eventually completes or fails.  Every batch is explored with            *)
(* collaborators that return nothing, and the one-chunk batch with         *)
(* backends that fail, return no list, or return up to MaxConfigItems      *)
(* items in total.                                                         *)
(***************************************************************************)
InitFair ==
    \/ InitWith(BoundedSeq(ChunkPool, MaxChunks), [items |-> 0, mem |-> 0])
    \/ InitWith({OneChunk}, [items |-> MaxConfigItems, mem |-> 0])

Fairness ==
    /\ WF_vars(ValidateChunks)
    /\ WF_vars(RetrieveContext)
    /\ WF_vars(CreateTasks)
    /\ \A i \in 1..Len(ModelsAtImport) : WF_vars(TaskSettle(i))
    /\ WF_vars(Join)
    /\ WF_vars(Reduce)

FairSpec == InitFair /\ [][Next]_vars /\ Fairness

(***************************************************************************)
(* The same runs with a caller that may cancel analyze_chunks while it     *)
(* awaits the backend calls (the only await of the function).              *)
(***************************************************************************)
\* what a task comes to when it is cancelled before it has settled
Cancelled == [kind |-> "cancelled", items |-> <<>>]

\* how the call ends when the caller cancels it
CancelledCall == [status |-> "cancelled", value |-> <<>>]

\* (variant: the awaited tasks are shielded from the caller's cancellation)
CancelGatherShielded(outs, waiting) == [outcomes |-> outs, running |-> waiting]

\* analyze.py:87  cancelling the awaited asyncio.gather cancels every task it
\* still waits for; the results of the tasks that are done are kept
CancelGather(outs, waiting) ==
    [outcomes |-> [i \in DOMAIN outs |->
                      IF i \in waiting THEN Cancelled ELSE outs[i]],
     running |-> {}]

\* the caller cancels analyze_chunks at its await, analyze.py:87, while
\* backend calls are in flight: CancelledError is no Exception, nothing in
\* analyze_chunks or analyze_with_provider catches it
CancelCall ==
    /\ pc = "gather"
    /\ running # {}
    /\ LET c == CancelGather(outcomes, running) IN
         /\ outcomes' = c.outcomes
         /\ running' = c.running
         /\ settled' = [i \in DOMAIN settled |->
                           IF c.outcomes[i] = Cancelled THEN Cancelled
                           ELSE settled[i]]
    /\ ret' = CancelledCall
    /\ pc' = "done"
    /\ UNCHANGED <<MODELS, chunks, valid_chunks, context_results,
                   aggregated_context, tasks, results, valid_decisions, heap,
                   log, retrieve_calls, embed_calls, first_settled, env,
                   requests, kwargs, constructed>>
    /\ UNCHANGED <<mainVars, storeVars>>

NextCancel == Next \/ CancelCall

SpecCancel == Init /\ [][NextCancel]_vars

(***************************************************************************)
(* Runs with a registry one entry of which names a provider that has no    *)
(* client factory: the one-chunk batch, with backends that return up to    *)
(* MaxConfigItems items.                                                   *)
(***************************************************************************)
UnknownProvider == "mistral"

RegistriesWithUnknown ==
    {[ModelsAtImport EXCEPT ![i].provider = UnknownProvider] :
        i \in 1..Len(ModelsAtImport)}

InitRegistry ==
    InitRun(RegistriesWithUnknown, {OneChunk},
            [items |-> MaxConfigItems, mem |-> 0])

SpecRegistry == InitRegistry /\ [][Next]_vars

(***************************************************************************)
(* Runs under every environment of the model-selection variables: the      *)
(* one-chunk batch, with backends that return up to MaxConfigItems items.  *)
(***************************************************************************)
InitConfig ==
    InitRun({ModelsImportedUnder(environ) : environ \in Environs}, {OneChunk},
            [items |-> MaxConfigItems, mem |-> 0])

SpecConfig == InitConfig /\ [][Next]_vars

(***************************************************************************)
(* Construction of one DecisionObject from keyword arguments, as           *)
(* tests/test_analysis_logic.py does it: no analysis runs.                 *)
(***************************************************************************)
\* ticker arguments: lower case, upper case, mixed
TickerPool == {<<"a", "a", "p", "l">>, <<"A", "A", "P", "L">>, <<"A", "a", "p", "l">>}

\* confidence arguments: below, at and between the limits, and above them
\* (101 and 105 are the values of the tests)
ConfidencePool == {-1, MinConfidence, 50, MaxConfidence, 101, 105}

\* the keyword arguments tried: signal and reasoning may be absent (None)
KwargsPool ==
    [signal : Signals \cup {"PANIC_SELL", None},
     confidence : ConfidencePool,
     reasoning : {"r", None},
     ticker : TickerPool,
     source_id : {"c1"},
     model_provider : {None},
     model_name : {None}]

InitConstruct ==
    /\ MainIdle
    /\ StoreIdle
    /\ kwargs \in KwargsPool
    /\ constructed = NotConstructed
    /\ pc = "construct"
    /\ MODELS = ModelsAtImport
    /\ chunks = <<>>
    /\ env = [items |-> 0, mem |-> 0]
    /\ valid_chunks = <<>>
    /\ context_results = <<>>
    /\ aggregated_context = EmptyStr
    /\ tasks = <<>>
    /\ outcomes = <<>>
    /\ settled = <<>>
    /\ results = <<>>
    /\ valid_decisions = <<>>
    /\ heap = [id \in ObjIds |-> ResponseObject(id)]
    /\ ret = Running
    /\ log = <<>>
    /\ retrieve_calls = <<>>
    /\ embed_calls = <<>>
    /\ running = {}
    /\ first_settled = 0
    /\ requests = <<>>

\* models.py:12-48  DecisionObject(**kwargs)
Construct ==
    /\ pc = "construct"
    /\ constructed' = DecisionObject(kwargs)
    /\ pc' = "constructed"
    /\ UNCHANGED <<MODELS, chunks, valid_chunks, context_results,
                   aggregated_context, tasks, outcomes, settled, results,
                   valid_decisions, heap, ret, log, retrieve_calls,
                   embed_calls, running, first_settled, env, requests, kwargs>>
    /\ UNCHANGED <<mainVars, storeVars>>

NextConstruct == Construct

SpecConstruct == InitConstruct /\ [][NextConstruct]_vars

(***************************************************************************)
(* main.py: the 'ingest' command.  ingest_newsletters, get_supabase_client,*)
(* upsert_newsletter_snapshot and save_decision are collaborators that     *)
(* return or raise.  asyncio.run(analyze_chunks(data)) is one statement of *)
(* main and is taken as one step, computed from what the four backend      *)
(* calls come to by the operators of the analysis above; of the call only  *)
(* what main can observe is kept (the returned list and the instances).    *)
(***************************************************************************)
\* what ingest_newsletters may return: nothing, one or two snapshots
IngestResults == {<<>>, OneChunk, TwoChunks}

\* (variant: an empty ingestion is not checked for)
NoNewslettersUnchecked(d) == FALSE

\* main.py:32  `if not data`
NoNewsletters(d) == d = <<>>

\* how the client of main.py:42 is marked once get_supabase_client returned
\* it, and once the call raised (db.py:23-29)
Client == "client"
ClientError == "ValueError"

\* (variant: no handler around the upsert, a failure ends main)
AfterSnapshotUnhandled(i, n, ok) ==
    IF ~ok THEN "raised" ELSE IF i < n THEN "snapshot" ELSE "analyze"

\* main.py:45-58  where main goes after the upsert of item i of n: the handler
\* of 49-53 swallows a failure, the loop goes on, analysis follows the loop
AfterSnapshot(i, n, ok) == IF i < n THEN "snapshot" ELSE "analyze"

\* (variant: a failed save ends the loop over the decisions)
AfterSaveStopping(i, n, ok) == IF i < n /\ ok THEN "save" ELSE "done"

\* main.py:65-76  where main goes after the save of decision i of n
AfterSave(i, n, ok) == IF i < n THEN "save" ELSE "done"

\* what the four backend calls of one analysis may come to: each fails,
\* returns no list, or returns at most one item
BackendAnswers == [1..Len(ModelsAtImport) -> CallOutcomes(1)]

\* analyze.py:31-109  analyze_chunks(cs) as one step, given what the backend
\* calls come to and the instances h: the returned list, the instances after
\* the stamping, or the exception gather raised
analyze_chunks(cs, models, calls, h) ==
    IF NoChunks(cs) \/ NoValidChunks(FilterChunks(cs))
    THEN [kind |-> "ok", decisions |-> <<>>, heap |-> h]
    ELSE
      LET res == [i \in 1..Len(models) |->
                     analyze_with_provider(models[i].provider, calls[i])]
          g == GatherResult(res, ReturnExceptions)
          acc == ReduceResults(g.results, models, 1,
                     [decisions |-> <<>>, heap |-> h, log |-> <<>>])
      IN  IF g.kind = "raise"
          THEN [kind |-> "raise", decisions |-> <<>>, heap |-> h]
          ELSE [kind |-> "ok", decisions |-> acc.decisions, heap |-> acc.heap]

InitMain ==
    /\ main_pc = "ingest"
    /\ data = <<>>
    /\ sb_client = None
    /\ snapshot_calls = <<>>
    /\ saved_count = 0
    /\ analyze_calls = <<>>
    /\ decisions = <<>>
    /\ save_calls = <<>>
    /\ saved_decisions = 0
    /\ StoreIdle
    /\ kwargs = NoKwargs
    /\ constructed = NotConstructed
    /\ MODELS = ModelsAtImport
    /\ chunks = <<>>
    /\ env = [items |-> 0, mem |-> 0]
    /\ pc = "idle"
    /\ valid_chunks = <<>>
    /\ context_results = <<>>
    /\ aggregated_context = EmptyStr
    /\ tasks = <<>>
    /\ outcomes = <<>>
    /\ settled = <<>>
    /\ results = <<>>
    /\ valid_decisions = <<>>
    /\ heap = [id \in ObjIds |-> ResponseObject(id)]
    /\ ret = Running
    /\ log = <<>>
    /\ retrieve_calls = <<>>
    /\ embed_calls = <<>>
    /\ running = {}
    /\ first_settled = 0
    /\ requests = <<>>

\* what main leaves alone in the steps before and after the analysis
AnalysisUntouched ==
    UNCHANGED <<MODELS, chunks, pc, valid_chunks, context_results,
                aggregated_context, tasks, outcomes, settled, results,
                valid_decisions, heap, ret, retrieve_calls, embed_calls,
                running, first_settled, env, requests, kwargs, constructed,
                storeVars>>

\* main.py:28-39  ingest, and stop with a warning when nothing came back
Ingest ==
    /\ main_pc = "ingest"
    /\ \E d \in IngestResults :
         /\ data' = d
         /\ IF NoNewsletters(d)
            THEN /\ log' = log \o <<LogRec("info", "ingestion_start", 0, None),
                                    LogRec("warning", "no_newsletters", 0, None)>>
                 /\ main_pc' = "done"
            ELSE /\ log' = log \o <<LogRec("info", "ingestion_start", 0, None),
                                    LogRec("info", "ingested", Len(d), None)>>
                 /\ main_pc' = "client"
    /\ UNCHANGED <<sb_client, snapshot_calls, saved_count, analyze_calls,
                   decisions, save_calls, saved_decisions>>
    /\ AnalysisUntouched

\* main.py:41-44  obtain the database client; a ValueError of db.py:29 is
\* caught nowhere and ends main
GetClient ==
    /\ main_pc = "client"
    /\ \E ok \in BOOLEAN :
         /\ sb_client' = IF ok THEN Client ELSE ClientError
         /\ main_pc' = IF ~ok THEN "raised"
                       ELSE IF data = <<>> THEN "analyze" ELSE "snapshot"
    /\ log' = Append(log, LogRec("info", "snapshot_start", 0, None))
    /\ UNCHANGED <<data, snapshot_calls, saved_count, analyze_calls,
                   decisions, save_calls, saved_decisions>>
    /\ AnalysisUntouched

\* main.py:45-58 and db.py:67-76  one turn of the snapshot loop: the upsert of
\* the next item succeeds or raises; after the last item the count is logged
SnapshotItem ==
    /\ main_pc = "snapshot"
    /\ LET i == Len(snapshot_calls) + 1 IN
       \E ok \in BOOLEAN :
         LET count == IF ok THEN saved_count + 1 ELSE saved_count
             log1 == IF ok THEN log
                     ELSE Append(log, LogRec("error", "snapshot_failed", 0,
                                             data[i].source_id))
             to == AfterSnapshot(i, Len(data), ok)
         IN  /\ snapshot_calls' = Append(snapshot_calls,
                                         [item |-> data[i], ok |-> ok])
             /\ saved_count' = count
             /\ main_pc' = to
             /\ log' = IF to = "analyze"
                       THEN log1 \o <<LogRec("info", "snapshots_saved", count, None),
                                      LogRec("info", "analysis_start", 0, None)>>
                       ELSE log1
    /\ UNCHANGED <<data, sb_client, analyze_calls, decisions, save_calls,
                   saved_decisions>>
    /\ AnalysisUntouched

\* main.py:60-62 and 77-78  asyncio.run(analyze_chunks(data)): it returns the
\* decisions, or an exception leaves the try block and is logged
Analyze ==
    /\ main_pc = "analyze"
    /\ analyze_calls' = Append(analyze_calls, data)
    /\ chunks' = data
    /\ valid_chunks' = FilterChunks(data)
    /\ \E run_ok \in BOOLEAN, calls \in BackendAnswers :
         LET r == IF run_ok THEN analyze_chunks(data, MODELS, calls, heap)
                  ELSE [kind |-> "raise", decisions |-> <<>>, heap |-> heap]
         IN  IF r.kind = "raise"
             THEN /\ ret' = Raised
                  /\ log' = Append(log, LogRec("error", "analysis_failed", 0, None))
                  /\ main_pc' = "done"
                  /\ UNCHANGED <<decisions, heap, valid_decisions>>
             ELSE /\ ret' = Return(r.decisions)
                  /\ heap' = r.heap
                  /\ valid_decisions' = r.decisions
                  /\ decisions' = r.decisions
                  /\ IF r.decisions = <<>>
                     THEN /\ main_pc' = "done"
                          /\ log' = log \o
                               <<LogRec("info", "analysis_complete", 0, None),
                                 LogRec("info", "decisions_saved", 0, None)>>
                     ELSE /\ main_pc' = "save"
                          /\ log' = Append(log,
                               LogRec("info", "analysis_complete",
                                      Len(r.decisions), None))
    /\ pc' = "done"
    /\ UNCHANGED <<data, sb_client, snapshot_calls, saved_count, save_calls,
                   saved_decisions>>
    /\ UNCHANGED <<MODELS, context_results, aggregated_context, tasks, outcomes,
                   settled, results, retrieve_calls, embed_calls, running,
                   first_settled, env, requests, kwargs, constructed, storeVars>>

\* main.py:65-76  one turn of the loop over the decisions: save_decision
\* succeeds or raises; after the last decision the count is logged
SaveDecision ==
    /\ main_pc = "save"
    /\ LET i == Len(save_calls) + 1 IN
       \E ok \in BOOLEAN :
         LET count == IF ok THEN saved_decisions + 1 ELSE saved_decisions
             log1 == Append(log,
                        IF ok
                        THEN LogRec("info", "decision_saved", 0,
                                    heap[decisions[i]].model_provider)
                        ELSE LogRec("error", "decision_failed", 0, None))
             to == AfterSave(i, Len(decisions), ok)
         IN  /\ save_calls' = Append(save_calls,
                                     [decision |-> decisions[i], ok |-> ok])
             /\ saved_decisions' = count
             /\ main_pc' = to
             /\ log' = IF to = "done"
                       THEN Append(log1, LogRec("info", "decisions_saved", count, None))
                       ELSE log1
    /\ UNCHANGED <<data, sb_client, snapshot_calls, saved_count, analyze_calls,
                   decisions>>
    /\ AnalysisUntouched

NextMain ==
    \/ Ingest
    \/ GetClient
    \/ SnapshotItem
    \/ Analyze
    \/ SaveDecision

SpecMain == InitMain /\ [][NextMain]_vars

(***************************************************************************)
(* memory/store.py: add_memory, called up to MaxAdds times on one table.   *)
(* An exception is the text str(e) gives, a sequence of tokens, so that    *)
(* the test of store.py:94 is computed on it.  The texts are those of the  *)
(* failures the calls of the try block can end in; only the rejection by   *)
(* the unique constraint names that constraint.                            *)
(***************************************************************************)
\* the texts of a failed embedding request, of db.py:24-29, of an insert the
\* unique constraint on content rejected, and of any other failed insert
EmbeddingErrorText == <<"embedding request failed">>
ConfigErrorText == <<"Supabase configuration missing: ensure ",
                     "SUPABASE_PROJECT_URL", " and ",
                     "SUPABASE_SERVICE_ROLE_KEY", " are set.">>
UniqueViolationText == <<"duplicate key value violates unique constraint ",
                         "unique_content">>
InsertErrorText == <<"insert failed">>

\* contents add_memory is called with: empty, or one of two texts
MemoryContents == {"", "m1", "m2"}

\* (variant: no exception is taken for the duplicate)
MentionsUniqueContentNever(text) == FALSE

\* store.py:94  "unique_content" in str(e)
MentionsUniqueContent(text) ==
    \E k \in DOMAIN text : text[k] = "unique_content"

\* embeddings.py:12-25  get_embedding(text), given the service's answer to the
\* one-text request: the first embedding, none, or the request's exception
get_embedding(text, response) ==
    IF text = "" THEN [kind |-> "ok", embedding |-> <<>>]
    ELSE LET got == get_embeddings_batch(<<text>>, response) IN
         IF got.kind = "raise" THEN Raise
         ELSE IF got.embeddings = <<>> THEN [kind |-> "ok", embedding |-> <<>>]
         ELSE [kind |-> "ok", embedding |-> <<got.embeddings[1]>>]

\* what the insert of store.py:90 may come to on a table with `rows`: a
\* content already there is rejected by the unique constraint, a new one is
\* inserted, and either may fail for another reason
InsertAnswers(content, rows) ==
    {"error"} \cup
    (IF \E k \in DOMAIN rows : rows[k] = content
     THEN {"duplicate"} ELSE {"inserted"})

\* store.py:68-98  add_memory(content), given the collaborators' answers: what
\* it returns and the rows of the table afterwards
add_memory(content, rows, response, client_ok, insert) ==
    LET got == get_embedding(content, response)
        raised ==
            IF got.kind = "raise" THEN EmbeddingErrorText
            ELSE IF got.embedding = <<>> THEN <<>>
            ELSE IF ~client_ok THEN ConfigErrorText
            ELSE IF insert = "duplicate" THEN UniqueViolationText
            ELSE IF insert = "error" THEN InsertErrorText
            ELSE <<>>
    IN  IF got.kind = "ok" /\ got.embedding = <<>>
        THEN [returned |-> FALSE, rows |-> rows]
        ELSE IF raised # <<>>
        THEN [returned |-> MentionsUniqueContent(raised), rows |-> rows]
        ELSE [returned |-> TRUE, rows |-> Append(rows, content)]

InitMemory ==
    /\ memories = <<>>
    /\ add_calls = <<>>
    /\ batch_call = NoBatchCall
    /\ batch_results = <<>>
    /\ MainIdle
    /\ kwargs = NoKwargs
    /\ constructed = NotConstructed
    /\ MODELS = ModelsAtImport
    /\ chunks = <<>>
    /\ env = [items |-> 0, mem |-> 0]
    /\ pc = "idle"
    /\ valid_chunks = <<>>
    /\ context_results = <<>>
    /\ aggregated_context = EmptyStr
    /\ tasks = <<>>
    /\ outcomes = <<>>
    /\ settled = <<>>
    /\ results = <<>>
    /\ valid_decisions = <<>>
    /\ heap = [id \in ObjIds |-> ResponseObject(id)]
    /\ ret = Running
    /\ log = <<>>
    /\ retrieve_calls = <<>>
    /\ embed_calls = <<>>
    /\ running = {}
    /\ first_settled = 0
    /\ requests = <<>>

\* store.py:68-98  one add_memory call
AddMemory ==
    /\ Len(add_calls) < MaxAdds
    /\ \E content \in MemoryContents,
          response \in EmbedResponses(1),
          client_ok \in BOOLEAN :
         \E insert \in InsertAnswers(content, memories) :
           LET r == add_memory(content, memories, response, client_ok, insert)
           IN  /\ memories' = r.rows
               /\ add_calls' = Append(add_calls,
                      [content |-> content, response |-> response,
                       client_ok |-> client_ok, insert |-> insert,
                       before |-> memories, returned |-> r.returned,
                       after |-> r.rows])
    /\ UNCHANGED <<batch_call, batch_results, mainVars, analysisVars, kwargs,
                   constructed>>

NextMemory == AddMemory

SpecMemory == InitMemory /\ [][NextMemory]_vars

(***************************************************************************)
(* memory/store.py: one retrieve_context_batch call taken alone, with the  *)
(* answers of its collaborators drawn beforehand.                          *)
(***************************************************************************)
\* the arguments of the call: up to MaxQueries snippets
BatchQueries == {SubSeq(<<"q1", "q2", "q3", "q4">>, 1, n) : n \in 0..MaxQueries}

\* a call and the answers it will get: the embedding service's, whether the
\* database client can be created, and each similarity query's
BatchCalls ==
    UNION {[queries : {queries},
            response : EmbedResponses(Len(queries)),
            client_ok : BOOLEAN,
            rpc : [1..(Len(queries) + 1) -> RpcResponses(MaxMem)],
            done : {FALSE}] : queries \in BatchQueries}

InitBatch ==
    /\ batch_call \in BatchCalls
    /\ batch_results = <<>>
    /\ memories = <<>>
    /\ add_calls = <<>>
    /\ MainIdle
    /\ kwargs = NoKwargs
    /\ constructed = NotConstructed
    /\ MODELS = ModelsAtImport
    /\ chunks = <<>>
    /\ env = [items |-> 0, mem |-> MaxMem]
    /\ pc = "idle"
    /\ valid_chunks = <<>>
    /\ context_results = <<>>
    /\ aggregated_context = EmptyStr
    /\ tasks = <<>>
    /\ outcomes = <<>>
    /\ settled = <<>>
    /\ results = <<>>
    /\ valid_decisions = <<>>
    /\ heap = [id \in ObjIds |-> ResponseObject(id)]
    /\ ret = Running
    /\ log = <<>>
    /\ retrieve_calls = <<>>
    /\ embed_calls = <<>>
    /\ running = {}
    /\ first_settled = 0
    /\ requests = <<>>

\* store.py:16-66  the call, from its first line to its return
RetrieveBatch ==
    /\ ~batch_call.done
    /\ batch_results' = retrieve_context_batch(batch_call.queries,
                            batch_call.response, batch_call.client_ok,
                            batch_call.rpc)
    /\ batch_call' = [batch_call EXCEPT !.done = TRUE]
    /\ UNCHANGED <<memories, add_calls, mainVars, analysisVars, kwargs,
                   constructed>>

NextBatch == RetrieveBatch

SpecBatch == InitBatch /\ [][NextBatch]_vars

(***************************************************************************)
(* Vocabulary of the properties                                            *)
(***************************************************************************)
Range(q) == {q[i] : i \in DOMAIN q}

\* a chunk lacking a non-empty source_id or a non-empty content
Malformed(c) == c.source_id \in {None, ""} \/ c.content \in {None, ""}

\* the well-formed chunks of the input, in input order
WellFormed(cs) == SelectSeq(cs, LAMBDA c : ~Malformed(c))

\* the DecisionObject instances of what a task came to, in returned order
DecisionsOf(o) ==
    IF o.kind = "list" THEN SelectSeq(o.items, LAMBDA d : d # NotADecision)
    ELSE <<>>

\* the items of what a task came to that are no DecisionObject
RejectsOf(o) ==
    IF o.kind = "list" THEN SelectSeq(o.items, LAMBDA d : d = NotADecision)
    ELSE <<>>

RECURSIVE InRegistryOrder(_, _)
\* the decisions of tasks i.. one registry entry after the other
InRegistryOrder(os, i) ==
    IF i > Len(os) THEN <<>>
    ELSE DecisionsOf(os[i]) \o InRegistryOrder(os, i + 1)

RECURSIVE DecisionCount(_, _)
\* the number of decisions returned by the tasks of os whose index is in I
DecisionCount(os, I) ==
    IF I = {} THEN 0
    ELSE LET i == CHOOSE x \in I : TRUE
         IN  Len(DecisionsOf(os[i])) + DecisionCount(os, I \ {i})

\* the tasks that raised
FailedTasks == {i \in DOMAIN outcomes : outcomes[i].kind = "exception"}

\* the log records of one event
Logged(event) == SelectSeq(log, LAMBDA r : r.event = event)

\* analyze_chunks has ended after having dispatched to the backends
RanBackends == pc = "done" /\ tasks # <<>>

C3_OneTaskPerBackend ==
    /\ pc \in {"start", "retrieve", "dispatch"} => tasks = <<>>
    /\ (pc \in {"gather", "reduce", "done"} /\ WellFormed(chunks) # <<>>) =>
        /\ Len(tasks) = Len(ModelsAtImport)
        /\ Len(tasks) = 4
        /\ \A i \in DOMAIN tasks :
            /\ tasks[i].provider = ModelsAtImport[i].provider
            /\ tasks[i].model_name = ModelsAtImport[i].model
            /\ tasks[i].chunks = WellFormed(chunks)
            /\ tasks[i].context = aggregated_context

\* a batch of two valid chunks has been dispatched as four tasks
C3_Witness ==
    /\ pc = "gather"
    /\ Len(WellFormed(chunks)) = 2
    /\ Len(tasks) = 4
    /\ aggregated_context # EmptyStr

C8_EmptyInput ==
    chunks = <<>> =>
        /\ pc \in {"start", "done"}
        /\ pc = "done" => ret = Return(<<>>)
        /\ tasks = <<>>
        /\ retrieve_calls = <<>>
        /\ embed_calls = <<>>

\* the call on the empty list has returned
C8_Witness == chunks = <<>> /\ pc = "done" /\ ret.status = "returned"

(***************************************************************************)
(* C9  When every chunk of a non-empty input is malformed, analyze_chunks  *)
(* returns the empty list without raising, and makes neither a context     *)
(* call nor a backend task.                                                *)
(***************************************************************************)
C9_AllMalformed ==
    (chunks # <<>> /\ \A i \in DOMAIN chunks : Malformed(chunks[i])) =>
        /\ pc \in {"start", "done"}
        /\ pc = "done" => ret = Return(<<>>)
        /\ ret.status # "raised"
        /\ tasks = <<>>
        /\ retrieve_calls = <<>>
        /\ embed_calls = <<>>

\* two malformed chunks, one without content and one with an empty source
\* id, and the call has returned
C9_Witness ==
    /\ Len(chunks) = 2
    /\ chunks[1].content = None
    /\ chunks[2].source_id = ""
    /\ pc = "done"
    /\ ret = Return(<<>>)

(***************************************************************************)
(* C10 (as stated)  Of N chunks with M malformed, the N-M well-formed      *)
(* ones are passed on in their order and exactly one skip-count            *)
(* diagnostic is emitted for the batch.                                    *)
(***************************************************************************)
C10_AsStated ==
    (pc # "start" /\ chunks # <<>>) =>
        /\ valid_chunks = WellFormed(chunks)
        /\ Len(Logged("skipped")) = 1

(***************************************************************************)
(* C10 (amended)  Of N chunks with M malformed, the N-M well-formed ones   *)
(* are passed on in their order; when M >= 1 exactly one skip-count        *)
(* diagnostic, carrying M, is emitted for the batch, and when M = 0 none.  *)
(***************************************************************************)
C10_FilterAndOneDiagnostic ==
    LET M == Len(chunks) - Len(WellFormed(chunks)) IN
    pc # "start" =>
        /\ valid_chunks = WellFormed(chunks)
        /\ \A i \in DOMAIN tasks : tasks[i].chunks = WellFormed(chunks)
        /\ M >= 1 => /\ Len(Logged("skipped")) = 1
                     /\ Logged("skipped")[1].n = M
        /\ M = 0 => Logged("skipped") = <<>>

\* of two chunks the first is malformed; the second has been handed to the
\* backends and one diagnostic counts one skipped chunk
C10_Witness ==
    /\ pc = "gather"
    /\ Len(chunks) = 2
    /\ Malformed(chunks[1])
    /\ valid_chunks = <<chunks[2]>>
    /\ Len(Logged("skipped")) = 1

(***************************************************************************)
(* C11  The aggregated context is the newline-join, in retrieval order, of *)
(* exactly the non-empty strings the context retrieval returned; when      *)
(* every returned string is empty it is the empty string, and then every   *)
(* backend request carries the no-context placeholder and the call still   *)
(* returns.                                                                *)
(***************************************************************************)
RECURSIVE NonEmptyJoined(_)
\* the non-empty strings of cr, first to last, a newline between neighbours
NonEmptyJoined(cr) ==
    IF cr = <<>> THEN EmptyStr
    ELSE LET rest == NonEmptyJoined(Tail(cr)) IN
         IF Head(cr) = EmptyStr THEN rest
         ELSE IF rest = EmptyStr THEN Head(cr)
         ELSE Head(cr) \o <<"\n">> \o rest

\* the context retrieval has returned
Retrieved == pc \in {"dispatch", "gather", "reduce", "done"} /\ valid_chunks # <<>>

AllContextsEmpty == \A i \in DOMAIN context_results : context_results[i] = EmptyStr

PlaceholderSent ==
    /\ pc = "done"
    /\ Len(context_results) = 2
    /\ AllContextsEmpty
    /\ ret.status = "returned"
    /\ \A i \in DOMAIN requests :
          requests[i].sent /\ requests[i].context = NoContextPlaceholder

(***************************************************************************)
(* C12  The context retrieval has returned before the first backend task   *)
(* is created: while the call is before or in the retrieval no task        *)
(* exists, runs or has sent a request, and once tasks exist the one        *)
(* retrieval has been made, is not made again, and its aggregated result   *)
(* is the context every task was built with.                               *)
(***************************************************************************)
C12_RetrievalBeforeDispatch ==
    /\ pc \in {"start", "retrieve"} =>
          tasks = <<>> /\ running = {} /\ requests = <<>>
    /\ tasks # <<>> =>
          /\ retrieve_calls = <<Queries(valid_chunks)>>
          /\ Len(context_results) > 0
          /\ \A i \in DOMAIN tasks : tasks[i].context = aggregated_context

\* two backend calls are in flight and two have settled, after the one
\* retrieval, which found something
C12_Witness ==
    /\ pc = "gather"
    /\ Cardinality(running) = 2
    /\ Len(retrieve_calls) = 1
    /\ aggregated_context # EmptyStr
    /\ \A i \in DOMAIN tasks : tasks[i].context = aggregated_context

(***************************************************************************)
(* C13  All backend tasks are launched together and the call stays at the  *)
(* join until every one of them has completed or failed (all-settle, not   *)
(* fail-fast); the output list is empty until then and is filled only      *)
(* afterwards by the reducer, so nothing is appended while a backend task  *)
(* is still running.                                                       *)
(***************************************************************************)
C13_AllSettleJoin ==
    /\ pc = "gather" =>
          \A i \in DOMAIN tasks :
              IF i \in running THEN outcomes[i] = Pending
              ELSE outcomes[i] # Pending
    /\ running # {} =>
          /\ pc = "gather"
          /\ results = <<>>
          /\ valid_decisions = <<>>
          /\ ret = Running
    /\ (pc \in {"reduce", "done"} /\ tasks # <<>>) =>
          /\ running = {}
          /\ \A i \in DOMAIN tasks : outcomes[i] # Pending /\ settled[i] # Pending
    /\ valid_decisions # <<>> => pc = "done"

\* the task that settled first had failed, the join still waited for the
\* others, and their decisions are in the output
C13_Witness ==
    /\ pc = "done"
    /\ first_settled \in FailedTasks
    /\ Cardinality(FailedTasks) = 1
    /\ Len(valid_decisions) >= 2

(***************************************************************************)
(* C14  Every decision in the list analyze_chunks returns has a confidence *)
(* that is an integer in [0,100], a signal that is one of BUY, SELL and    *)
(* HOLD, a ticker equal to its own upper-cased form, and a non-empty       *)
(* model_provider and model_name.                                          *)
(* As stated this fails for model_name: the stamp is the registry entry's  *)
(* model, which config.py reads with os.getenv(NAME, default) and so is    *)
(* the empty string when the variable is set to the empty string.          *)
(***************************************************************************)
LowerLetters == {"a", "l", "p"}
\* the ticker holds no lower-case letter
IsUpperCased(t) == \A i \in DOMAIN t : t[i] \notin LowerLetters

\* the instances the returned list refers to
ReturnedDecisions ==
    IF ret.status = "returned" THEN {heap[ret.value[p]] : p \in DOMAIN ret.value}
    ELSE {}

FieldsValid(d) ==
    /\ d.confidence \in 0..100
    /\ d.signal \in {"BUY", "SELL", "HOLD"}
    /\ IsUpperCased(d.ticker)

UpperCasedFrom(u, t) ==
    /\ Len(u) = Len(t)
    /\ \A i \in DOMAIN t :
          \/ t[i] = "a" /\ u[i] = "A"
          \/ t[i] = "l" /\ u[i] = "L"
          \/ t[i] = "p" /\ u[i] = "P"
          \/ t[i] \notin LowerLetters /\ u[i] = t[i]

C15_Construction ==
    (pc = "constructed" /\ kwargs.reasoning # None /\ kwargs.source_id # None) =>
        /\ constructed.status = "ok" <=>
              /\ kwargs.signal \in {"BUY", "SELL", "HOLD"}
              /\ kwargs.confidence >= 0
              /\ kwargs.confidence <= 100
        /\ constructed.status = "ok" =>
              /\ UpperCasedFrom(constructed.object.ticker, kwargs.ticker)
              /\ kwargs.ticker = <<"a", "a", "p", "l">> =>
                    constructed.object.ticker = <<"A", "A", "P", "L">>
              /\ constructed.object.signal = kwargs.signal
              /\ constructed.object.confidence = kwargs.confidence
        /\ constructed.status # "ok" =>
              /\ constructed.status = "ValidationError"
              /\ DOMAIN constructed = {"status"}
        /\ (kwargs.confidence \in {101, 105} \/ kwargs.confidence < 0
              \/ kwargs.signal = "PANIC_SELL") =>
              constructed.status = "ValidationError"

\* "aapl" with an allowed signal and the lowest confidence was constructed
C15_Witness ==
    /\ pc = "constructed"
    /\ kwargs.ticker = <<"a", "a", "p", "l">>
    /\ kwargs.confidence = 0
    /\ kwargs.signal = "HOLD"
    /\ constructed.status = "ok"
    /\ constructed.object.ticker = <<"A", "A", "P", "L">>

\* a construction with confidence 105 failed
ConstructionRejected ==
    /\ pc = "constructed"
    /\ kwargs.confidence = 105
    /\ kwargs.signal = "BUY"
    /\ kwargs.reasoning = "r"
    /\ constructed = ValidationError

(***************************************************************************)
(* C16  analyze_chunks is deterministic: the list it returns, decision by  *)
(* decision and field by field, is a function of the registry and of what  *)
(* each backend answered, so two runs with the same chunks, registry,      *)
(* context strings and per-backend outcomes return equal lists whatever    *)
(* the order in which the backend tasks settled.                           *)
(***************************************************************************)
\* the last registry position whose backend returned instance d
LastHolder(d) ==
    CHOOSE i \in DOMAIN outcomes :
        /\ d \in Range(DecisionsOf(outcomes[i]))
        /\ \A j \in DOMAIN outcomes :
              j > i => d \notin Range(DecisionsOf(outcomes[j]))

\* instance d as the backend built it, attributed to its last holder
DeterminedDecision(d) ==
    [ResponseObject(d) EXCEPT !.model_provider = MODELS[LastHolder(d)].provider,
                              !.model_name = MODELS[LastHolder(d)].model]

\* the returned list as values, computed from registry and outcomes alone
DeterminedReturn ==
    LET refs == InRegistryOrder(outcomes, 1)
    IN  [p \in 1..Len(refs) |-> DeterminedDecision(refs[p])]

C17_AsStated ==
    Retrieved =>
        /\ Len(retrieve_calls) = 1
        /\ Len(context_results) = Len(retrieve_calls[1])

C19_AsStated ==
    ret = CancelledCall =>
        /\ running # {}
        /\ \A i \in DOMAIN outcomes : outcomes[i] # Cancelled

\* what holds: after the cancellation no backend call is running, every call
\* that was in flight is cancelled, and nothing was reduced or returned
C19_CancellationPropagates ==
    ret = CancelledCall =>
        /\ pc = "done"
        /\ running = {}
        /\ \E i \in DOMAIN outcomes : outcomes[i] = Cancelled
        /\ \A i \in DOMAIN outcomes :
              /\ outcomes[i] # Pending
              /\ outcomes[i] = Cancelled <=> settled[i] = Cancelled
              /\ outcomes[i] # Cancelled => settled[i] = outcomes[i]
        /\ results = <<>>
        /\ valid_decisions = <<>>

\* the caller cancelled after the second backend had returned a decision and
\* the fourth had failed: the first and the third call were cancelled
C19_Witness ==
    /\ ret = CancelledCall
    /\ outcomes[1] = Cancelled
    /\ outcomes[2] = Returned(<<1>>)
    /\ outcomes[3] = Cancelled
    /\ outcomes[4] = Failed

(***************************************************************************)
(* C20  The backend registry is read-only during a run: no step of         *)
(* analyze_chunks, on any path (early return, backend failures,            *)
(* reduction), adds, removes, reorders or modifies an entry, so the        *)
(* registry after the call is the registry before it, and the i-th task,   *)
(* request and outcome belong to the i-th entry.                           *)
(***************************************************************************)
C20_RegistryReadOnly ==
    /\ MODELS = ModelsAtImport
    /\ tasks # <<>> =>
          /\ DOMAIN tasks = DOMAIN MODELS
          /\ DOMAIN outcomes = DOMAIN MODELS
          /\ \A i \in DOMAIN MODELS :
                /\ tasks[i].provider = MODELS[i].provider
                /\ tasks[i].model_name = MODELS[i].model
                /\ requests[i].sent => requests[i].model = MODELS[i].model
    /\ results # <<>> => DOMAIN results = DOMAIN MODELS

\* a run went through the reduction with the first backend failed and the
\* last one's decision stamped from the fourth entry, the registry as before
C20_Witness ==
    /\ pc = "done"
    /\ MODELS = ModelsAtImport
    /\ FailedTasks = {1}
    /\ outcomes[4] = Returned(<<1>>)
    /\ ret.value = <<1>>
    /\ heap[1].model_name = MODELS[4].model

\* a run ended at an early return with the registry as before
EarlyReturnKeepsRegistry ==
    /\ pc = "done"
    /\ tasks = <<>>
    /\ MODELS = ModelsAtImport

(***************************************************************************)
(* C21  In the 'ingest' command, when ingestion returns no newsletters,    *)
(* main logs a warning and stops: the database client is never obtained,   *)
(* no snapshot is written and analyze_chunks is never invoked.             *)
(***************************************************************************)
\* ingestion has returned, with nothing
IngestedNothing == main_pc # "ingest" /\ data = <<>>

C21_NoNewslettersStops ==
    IngestedNothing =>
        /\ main_pc = "done"
        /\ \E k \in DOMAIN log :
              log[k].level = "warning" /\ log[k].event = "no_newsletters"
        /\ sb_client = None
        /\ snapshot_calls = <<>>
        /\ saved_count = 0
        /\ analyze_calls = <<>>
        /\ pc = "idle"
        /\ save_calls = <<>>

\* main has stopped after an empty ingestion, the warning its last message
C21_Witness ==
    /\ IngestedNothing
    /\ main_pc = "done"
    /\ Len(log) = 2
    /\ log[2].event = "no_newsletters"

(***************************************************************************)
(* C22  analyze_with_provider called with a provider name that has no      *)
(* client factory raises ValueError before any client is created or any    *)
(* request is sent; inside analyze_chunks this is that backend's failure,  *)
(* and the decisions of the other backends are still returned.             *)
(***************************************************************************)
\* the tasks whose provider is none of the four of llm.py:60-65
UnknownTasks ==
    {i \in DOMAIN tasks :
        tasks[i].provider \notin {"openai", "anthropic", "deepseek", "gemini"}}

SavedSnapshots == {i \in DOMAIN snapshot_calls : snapshot_calls[i].ok}

C23_SnapshotLoop ==
    /\ saved_count = Cardinality(SavedSnapshots)
    /\ \A i \in DOMAIN snapshot_calls :
          i <= Len(data) /\ snapshot_calls[i].item = data[i]
    /\ sb_client = Client => main_pc # "raised"
    /\ main_pc = "snapshot" =>
          /\ Len(snapshot_calls) < Len(data)
          /\ analyze_calls = <<>>
          /\ pc = "idle"
    /\ main_pc \in {"analyze", "save"} => Len(snapshot_calls) = Len(data)
    /\ analyze_calls # <<>> =>
          /\ Len(snapshot_calls) = Len(data)
          /\ analyze_calls = <<data>>
          /\ chunks = data

\* of two ingested items the snapshot of the first failed and that of the
\* second was saved; the analysis was then called with both
C23_Witness ==
    /\ Len(data) = 2
    /\ Len(snapshot_calls) = 2
    /\ ~snapshot_calls[1].ok
    /\ snapshot_calls[2].ok
    /\ saved_count = 1
    /\ analyze_calls = <<data>>
    /\ chunks = data

(***************************************************************************)
(* C24  In main, decisions are persisted only after analyze_chunks has     *)
(* returned; a failure to save one decision does not prevent attempting    *)
(* every later one; saved_decisions never exceeds the number of decisions  *)
(* and is the number of successful saves; and an exception from the        *)
(* analysis phase is caught, so that main returns normally.                *)
(***************************************************************************)
\* the saves that succeeded so far
SavedDecisions == {i \in DOMAIN save_calls : save_calls[i].ok}

C24_PersistAfterAnalysis ==
    /\ saved_decisions = Cardinality(SavedDecisions)
    /\ saved_decisions <= Len(decisions)
    /\ \A i \in DOMAIN save_calls :
          i <= Len(decisions) /\ save_calls[i].decision = decisions[i]
    /\ save_calls # <<>> =>
          /\ analyze_calls = <<data>>
          /\ pc = "done"
          /\ ret = Return(decisions)
    /\ main_pc = "save" => Len(save_calls) < Len(decisions)
    /\ (main_pc = "done" /\ ret.status = "returned") =>
          Len(save_calls) = Len(decisions)
    /\ ret = Raised =>
          /\ main_pc = "done"
          /\ save_calls = <<>>
          /\ \E k \in DOMAIN log :
                log[k].level = "error" /\ log[k].event = "analysis_failed"
    /\ analyze_calls # <<>> => main_pc # "raised"

\* main has ended after three decisions of which the first could not be saved
\* and the two later ones were
C24_Witness ==
    /\ main_pc = "done"
    /\ Len(decisions) = 3
    /\ Len(save_calls) = 3
    /\ ~save_calls[1].ok
    /\ save_calls[2].ok
    /\ save_calls[3].ok
    /\ saved_decisions = 2

\* main has ended normally after the analysis raised
AnalysisFailureCaught ==
    /\ main_pc = "done"
    /\ ret = Raised
    /\ save_calls = <<>>
    /\ saved_count = 1

(***************************************************************************)
(* C25  add_memory never raises and is idempotent in what it reports: it   *)
(* returns True when the insert succeeds and also when the insert is       *)
(* rejected by the unique-content constraint (adding the same content      *)
(* twice returns True both times), and returns False when the embedding is *)
(* empty or any other error occurs, in which case no row is inserted.      *)
(***************************************************************************)
\* call c got no embedding: the content was empty or the service sent none
GotNoEmbedding(c) ==
    c.content = "" \/ (c.response.kind = "ok" /\ c.response.n = 0)

\* call c reached the insert, which was answered by c.insert
ReachedInsert(c) ==
    /\ ~GotNoEmbedding(c)
    /\ c.response.kind = "ok"
    /\ c.client_ok

\* the content of call c was in the table before the call
WasStored(c) == \E k \in DOMAIN c.before : c.before[k] = c.content

QueriedEmbeddings(n) ==
    /\ batch_call.queries # <<>>
    /\ batch_call.response.kind = "ok"
    /\ batch_call.response.n = n
    /\ n > 0
    /\ batch_call.client_ok

\* the similarity query of embedding i raised after every earlier one answered
RaisedAfterSuccesses(i) ==
    /\ batch_call.rpc[i].kind = "raise"
    /\ \A k \in 1..(i - 1) : batch_call.rpc[k].kind = "ok"

\* one empty string for every query
AllEmpty ==
    /\ Len(batch_results) = Len(batch_call.queries)
    /\ \A k \in DOMAIN batch_results : batch_results[k] = EmptyStr

\* the context of every one of the n embeddings, each from its own answer
FullResults(n) ==
    /\ Len(batch_results) = n
    /\ \A k \in 1..n :
          /\ batch_call.rpc[k].kind = "ok"
          /\ batch_results[k] = FormatRows(batch_call.rpc[k].data)

C26_AllOrNothing ==
    batch_call.done =>
        /\ \A n \in 1..(MaxQueries + 1) : \A i \in 1..n :
              (QueriedEmbeddings(n) /\ RaisedAfterSuccesses(i)) => AllEmpty
        /\ \/ AllEmpty
           \/ \E n \in 1..(MaxQueries + 1) :
                 QueriedEmbeddings(n) /\ FullResults(n)

\* two queries: the first similarity query returned a memory, the second
\* raised, and both returned strings are empty
C26_Witness ==
    /\ batch_call.done
    /\ Len(batch_call.queries) = 2
    /\ QueriedEmbeddings(2)
    /\ batch_call.rpc[1] = [kind |-> "ok", data |-> <<"m1">>]
    /\ RaisedAfterSuccesses(2)
    /\ batch_results = <<EmptyStr, EmptyStr>>

\* a call whose queries all answered returns their contexts, not all empty
FullResultsReturned ==
    /\ batch_call.done
    /\ QueriedEmbeddings(2)
    /\ FullResults(2)
    /\ batch_results[1] # EmptyStr

=============================================================================
